---- MODULE Spec2Model ----
(***************************************************************************)
(* State-machine model of FRTMProxy/bridge.py: the mitmproxy addon that    *)
(* registers exchanges, applies Map Local rules, breakpoints and traffic   *)
(* profiles in the request/response hooks, and executes the controller's   *)
(* JSON commands read by stdin_reader on a separate thread.                *)
(*                                                                         *)
(* Python's optional values are modelled by the falsy value of their type: *)
(* the code reads every optional command field through `x or default` or   *)
(* `.get(name, default)`, so a missing field and its falsy value behave    *)
(* alike ("" for text, 0 for a status, the empty mapping for headers,      *)
(* NoUrl for a url, NoResponse for flow.response = None).                  *)
(***************************************************************************)
EXTENDS Integers, Sequences, FiniteSets, TLC

\* ------------------------------------------------------------------ bounds
NumFlows == 2      \* exchanges the engine receives from clients
MaxClones == 1     \* exchanges created by retry_flow
MaxCmds == 2       \* command lines read by stdin_reader

ClientIds == 1..NumFlows
Ids == 1..(NumFlows + MaxClones)
UnknownId == 0     \* an id no exchange ever has

\* ------------------------------------------------------------- value sets
EmptyHeaders == [n \in {} |-> ""]
NoUrl == [host |-> "", path |-> ""]
NoResponse == [status |-> 0, body |-> "", headers |-> EmptyHeaders]
NoBreakpoint == [phase |-> "", state |-> "", key |-> ""]
NoPayload == [given |-> FALSE]

UrlA == [host |-> "h.test", path |-> "/a"]
UrlAQ == [host |-> "h.test", path |-> "/a?q=1"]
UrlB == [host |-> "h.test", path |-> "/b"]
UrlLocal == [host |-> "localhost", path |-> "/a"]
ClientHeaders == [Accept |-> "any"]
\* the requests clients send: method, url (the path carries the query)
ClientRequests ==
  { [method |-> "GET", url |-> UrlA],
    [method |-> "post", url |-> UrlAQ],
    [method |-> "GET", url |-> UrlLocal] }
UpstreamResponse == [status |-> 200, body |-> "up", headers |-> [Server |-> "origin"]]

\* str.upper() on the method names in use
Upper(m) ==
  CASE m = "get" -> "GET"
    [] m = "post" -> "POST"
    [] m = "put" -> "PUT"
    [] OTHER -> m

\* str.lower() on the header names in use
Lower(n) ==
  CASE n = "Content-Type" -> "content-type"
    [] n = "X-Map-Local" -> "x-map-local"
    [] n = "Accept" -> "accept"
    [] n = "Server" -> "server"
    [] OTHER -> n

\* path.split("?", 1)[0] on the paths in use
StripQuery(path) ==
  CASE path = "/a?q=1" -> "/a"
    [] OTHER -> path

Put(f, k, v) == (k :> v) @@ f
Pop(f, k) == [x \in DOMAIN f \ {k} |-> f[x]]

VARIABLES
  flows,                  \* id -> the HTTPFlow object with that id
  pc,                     \* id -> where the engine / the hook is with it
  waiting,                \* id -> the hook's local waiting_request / waiting_response
  FLOW_BY_ID,
  FLOW_BY_KEY,
  MAP_LOCAL_RULES,
  BREAKPOINT_RULES,
  ACTIVE_TRAFFIC_PROFILE,
  events,                 \* id -> the JSON events written to stdout for it, in order
  suspendedIn,            \* id -> the phase whose hook intercepted it ("" when flowing)
  lifted,                 \* id, phase -> times a suspension of that phase was lifted
  seenHost,               \* id, phase -> the host that phase's hook tested ("" before)
  profileReads,           \* id, phase -> the values of ACTIVE_TRAFFIC_PROFILE the
                          \* shaping of that phase has read
  run,                    \* this run: exchanges clients start, lines the controller sends
  nCmds,                  \* command lines read so far
  lastCmd                 \* the command line stdin_reader handled last

vars == <<flows, pc, waiting, FLOW_BY_ID, FLOW_BY_KEY, MAP_LOCAL_RULES,
          BREAKPOINT_RULES, ACTIVE_TRAFFIC_PROFILE, events, suspendedIn,
          lifted, seenHost, profileReads, run, nCmds, lastCmd>>

tables == <<FLOW_BY_ID, FLOW_BY_KEY, MAP_LOCAL_RULES, BREAKPOINT_RULES,
            ACTIVE_TRAFFIC_PROFILE>>
cmdVars == <<run, nCmds, lastCmd>>
ghosts == <<suspendedIn, lifted, seenHost, profileReads>>

\* -------------------------------------------------------- pure functions
TRAFFIC_PROFILE_DEFAULT ==
  [id |-> "traffic.off", latency_ms |-> 0, jitter_ms |-> 0,
   downstream_kbps |-> 0, upstream_kbps |-> 0, packet_loss |-> 0]

flow_key(flow) == flow.url.host \o StripQuery(flow.url.path)

is_loopback_host(host) ==
  /\ host # ""
  /\ host \in {"localhost", "::1", "0.0.0.0", "127.0.0.1", "[::1]"}

traffic_profile_enabled == ACTIVE_TRAFFIC_PROFILE.id # TRAFFIC_PROFILE_DEFAULT.id

breakpoint_snapshot(flow, phase, state) ==
  [phase |-> phase, state |-> state, key |-> flow_key(flow)]

\* `rule.get("request")` whatever the phase
should_break_request_flag(flow, phase) ==
  /\ flow_key(flow) \in DOMAIN BREAKPOINT_RULES
  /\ BREAKPOINT_RULES[flow_key(flow)]["request"]

should_break(flow, phase) ==
  /\ flow_key(flow) \in DOMAIN BREAKPOINT_RULES
  /\ BREAKPOINT_RULES[flow_key(flow)][phase]

\* the payload send_flow_event writes (timestamp and client address left out)
FlowEvent(id, flow, event, breakpoint_meta) ==
  [event |-> event, id |-> id,
   request |-> [method |-> flow.method, url |-> flow.url,
                headers |-> flow.headers, body |-> flow.body],
   response |-> flow.response,
   breakpoint |-> breakpoint_meta]

\* send(payload): one more line on stdout, kept under the id it carries
Emit(id, payload) == [events EXCEPT ![id] = Append(@, payload)]

\* the response apply_map_local_response gives a flow
MapLocalResponse(rule) ==
  LET withType == IF \E h \in DOMAIN rule.headers : Lower(h) = "content-type"
                  THEN rule.headers
                  ELSE Put(rule.headers, "Content-Type", "application/json")
  IN [status |-> rule.status, body |-> rule.body,
      headers |-> Put(withType, "X-Map-Local", "true")]

\* flow.intercept() / flow.resume() of the engine
Intercept(flow) == [flow EXCEPT !.intercepted = TRUE]
Resume(flow) == [flow EXCEPT !.intercepted = FALSE]

\* what lastCmd records of a handled command line: its type, whether FLOW_BY_ID
\* held the id it names, and (retry_flow) whether the engine refused the replay
\* and the line's id and fields
NoArgs == [id |-> 0]
CmdRecordWith(type, found, refused, args) ==
  [type |-> type, found |-> found, refused |-> refused, args |-> args]
CmdRecord(type, found, refused) == CmdRecordWith(type, found, refused, NoArgs)
NoCmd == CmdRecord("none", FALSE, FALSE)

\* ------------------------------------------------------------------- Init
BlankFlow ==
  [method |-> "", url |-> NoUrl, headers |-> EmptyHeaders, body |-> "",
   response |-> NoResponse, intercepted |-> FALSE]

InitWith(clients, cmds) ==
  /\ run = [clients |-> clients, cmds |-> cmds]
  /\ flows = [i \in Ids |-> BlankFlow]
  /\ pc = [i \in Ids |-> "absent"]
  /\ waiting = [i \in Ids |-> FALSE]
  /\ FLOW_BY_ID = [i \in {} |-> 0]
  /\ FLOW_BY_KEY = [k \in {} |-> 0]
  /\ MAP_LOCAL_RULES = [k \in {} |-> NoResponse]
  /\ BREAKPOINT_RULES = [k \in {} |-> [request |-> FALSE, response |-> FALSE]]
  /\ ACTIVE_TRAFFIC_PROFILE = TRAFFIC_PROFILE_DEFAULT
  /\ events = [i \in Ids |-> <<>>]
  /\ suspendedIn = [i \in Ids |-> ""]
  /\ lifted = [i \in Ids |-> [request |-> 0, response |-> 0]]
  /\ seenHost = [i \in Ids |-> [request |-> "", response |-> ""]]
  /\ profileReads = [i \in Ids |-> [request |-> {}, response |-> {}]]
  /\ nCmds = 0
  /\ lastCmd = NoCmd

Init == InitWith(NumFlows, MaxCmds)

\* ------------------------------------------------------- engine and hooks
\* A client request reaches the engine, which is about to call request(flow).
ClientRequest(f) ==
  /\ f \in ClientIds
  /\ f <= run.clients
  /\ pc[f] = "absent"
  /\ \A g \in ClientIds : g < f => pc[g] # "absent"
  /\ \E r \in ClientRequests :
       flows' = [flows EXCEPT ![f] =
                   [BlankFlow EXCEPT !.method = r.method, !.url = r.url,
                                     !.headers = ClientHeaders]]
  /\ pc' = [pc EXCEPT ![f] = "request"]
  /\ UNCHANGED <<waiting, tables, events, suspendedIn, lifted, seenHost, profileReads, cmdVars>>

\* The engine calls the hooks on its single event-loop thread and both are
\* plain (blocking) functions: one hook runs at a time, while stdin_reader's
\* thread (load) may run a command between any two steps of it.
InHook == {"req_break", "req_shape", "req_bandwidth", "req_map", "req_event",
           "resp_shape", "resp_loss", "resp_tag", "resp_tag_lost", "resp_break",
           "resp_event"}
NoHookRunning == \A g \in Ids : pc[g] \notin InHook

\* request(): the loopback test and the registration
RequestEnter(f) ==
  /\ pc[f] = "request"
  /\ NoHookRunning
  /\ IF is_loopback_host(flows[f].url.host)
       THEN /\ pc' = [pc EXCEPT ![f] = "request_done"]
            /\ UNCHANGED <<FLOW_BY_ID, FLOW_BY_KEY>>
       ELSE /\ pc' = [pc EXCEPT ![f] = "req_break"]
            /\ FLOW_BY_ID' = Put(FLOW_BY_ID, f, f)
            /\ FLOW_BY_KEY' = Put(FLOW_BY_KEY, flow_key(flows[f]), f)
  /\ seenHost' = [seenHost EXCEPT ![f].request = flows[f].url.host]
  /\ UNCHANGED <<flows, waiting, MAP_LOCAL_RULES, BREAKPOINT_RULES,
                 ACTIVE_TRAFFIC_PROFILE, events, suspendedIn, lifted, profileReads,
                 cmdVars>>

\* request(): waiting_request = should_break(...); flow.intercept()
RequestBreak(f) ==
  /\ pc[f] = "req_break"
  /\ LET w == should_break(flows[f], "request") IN
       /\ waiting' = [waiting EXCEPT ![f] = w]
       /\ flows' = IF w THEN [flows EXCEPT ![f] = Intercept(@)] ELSE flows
       /\ suspendedIn' = IF w THEN [suspendedIn EXCEPT ![f] = "request"]
                           ELSE suspendedIn
  /\ pc' = [pc EXCEPT ![f] = "req_shape"]
  /\ UNCHANGED <<tables, events, lifted, seenHost, profileReads, cmdVars>>

\* the value of ACTIVE_TRAFFIC_PROFILE a phase's shaping reads now
ReadProfile(f, phase) ==
  profileReads' = [profileReads EXCEPT ![f][phase] = @ \cup {ACTIVE_TRAFFIC_PROFILE}]

\* a hook that does not go on until its intercepted flow has been resumed
RequestShapeAfterResume(f) ==
  /\ pc[f] = "req_shape"
  /\ ~flows[f].intercepted
  /\ ReadProfile(f, "request")
  /\ pc' = [pc EXCEPT ![f] = IF traffic_profile_enabled THEN "req_bandwidth"
                             ELSE "req_map"]
  /\ UNCHANGED <<flows, waiting, tables, events, suspendedIn, lifted, seenHost, cmdVars>>

\* request(): apply_profile_to_request up to the end of apply_profile_latency,
\* which sleeps and changes nothing
RequestShape(f) ==
  /\ pc[f] = "req_shape"
  /\ ReadProfile(f, "request")
  /\ pc' = [pc EXCEPT ![f] = IF traffic_profile_enabled THEN "req_bandwidth"
                             ELSE "req_map"]
  /\ UNCHANGED <<flows, waiting, tables, events, suspendedIn, lifted, seenHost, cmdVars>>

\* request(): apply_profile_bandwidth on upstream_kbps, which sleeps too
RequestBandwidth(f) ==
  /\ pc[f] = "req_bandwidth"
  /\ ReadProfile(f, "request")
  /\ pc' = [pc EXCEPT ![f] = "req_map"]
  /\ UNCHANGED <<flows, waiting, tables, events, suspendedIn, lifted, seenHost, cmdVars>>

\* a one-shot lookup: the rule is popped when it is applied
RequestMapLocalOnce(f) ==
  /\ pc[f] = "req_map"
  /\ LET key == flow_key(flows[f]) IN
       /\ flows' = IF key \in DOMAIN MAP_LOCAL_RULES
                     THEN [flows EXCEPT ![f].response = MapLocalResponse(MAP_LOCAL_RULES[key])]
                     ELSE flows
       /\ MAP_LOCAL_RULES' = Pop(MAP_LOCAL_RULES, key)
  /\ pc' = [pc EXCEPT ![f] = "req_event"]
  /\ UNCHANGED <<waiting, FLOW_BY_ID, FLOW_BY_KEY, BREAKPOINT_RULES,
                 ACTIVE_TRAFFIC_PROFILE, events, suspendedIn, lifted, seenHost, profileReads, cmdVars>>

\* request(): the Map Local lookup and apply_map_local_response
RequestMapLocal(f) ==
  /\ pc[f] = "req_map"
  /\ LET key == flow_key(flows[f]) IN
       flows' = IF key \in DOMAIN MAP_LOCAL_RULES
                  THEN [flows EXCEPT ![f].response = MapLocalResponse(MAP_LOCAL_RULES[key])]
                  ELSE flows
  /\ pc' = [pc EXCEPT ![f] = "req_event"]
  /\ UNCHANGED <<waiting, tables, events, suspendedIn, lifted, seenHost, profileReads, cmdVars>>

\* request(): send_flow_event(flow, "request", bp_meta)
RequestEvent(f) ==
  /\ pc[f] = "req_event"
  /\ LET bp_meta == IF waiting[f]
                      THEN breakpoint_snapshot(flows[f], "request", "waiting")
                      ELSE NoBreakpoint
     IN events' = Emit(f, FlowEvent(f, flows[f], "request", bp_meta))
  /\ waiting' = [waiting EXCEPT ![f] = FALSE]
  /\ pc' = [pc EXCEPT ![f] = "request_done"]
  /\ UNCHANGED <<flows, tables, suspendedIn, lifted, seenHost, profileReads, cmdVars>>

\* The engine goes on once the request hook has returned and the flow is not
\* intercepted: a flow without a response gets the upstream's, and response(flow)
\* is about to be called.
EngineForward(f) ==
  /\ pc[f] = "request_done"
  /\ ~flows[f].intercepted
  /\ flows' = IF flows[f].response = NoResponse
                THEN [flows EXCEPT ![f].response = UpstreamResponse]
                ELSE flows
  /\ pc' = [pc EXCEPT ![f] = "response"]
  /\ UNCHANGED <<waiting, tables, events, suspendedIn, lifted, seenHost, profileReads, cmdVars>>

\* response(): the loopback test and the registration
ResponseEnter(f) ==
  /\ pc[f] = "response"
  /\ NoHookRunning
  /\ IF is_loopback_host(flows[f].url.host)
       THEN /\ pc' = [pc EXCEPT ![f] = "response_done"]
            /\ UNCHANGED <<FLOW_BY_ID, FLOW_BY_KEY>>
       ELSE /\ pc' = [pc EXCEPT ![f] = "resp_shape"]
            /\ FLOW_BY_ID' = Put(FLOW_BY_ID, f, f)
            /\ FLOW_BY_KEY' = Put(FLOW_BY_KEY, flow_key(flows[f]), f)
  /\ seenHost' = [seenHost EXCEPT ![f].response = flows[f].url.host]
  /\ UNCHANGED <<flows, waiting, MAP_LOCAL_RULES, BREAKPOINT_RULES,
                 ACTIVE_TRAFFIC_PROFILE, events, suspendedIn, lifted, profileReads,
                 cmdVars>>

PacketLossResponse ==
  [status |-> 598, body |-> "Simulated packet loss (traffic profile)",
   headers |-> [n \in {"Content-Type"} |-> "text/plain"]]

\* tag_response_with_profile
tag_response_with_profile(flow) ==
  IF traffic_profile_enabled /\ flow.response # NoResponse
    THEN [flow EXCEPT !.response.headers =
            Put(@, "X-FRTraffic-Profile", ACTIVE_TRAFFIC_PROFILE.id)]
    ELSE flow

\* response(): apply_profile_to_response up to the end of
\* apply_profile_latency, which sleeps and changes nothing
ResponseShape(f) ==
  /\ pc[f] = "resp_shape"
  /\ ReadProfile(f, "response")
  /\ pc' = [pc EXCEPT ![f] = IF traffic_profile_enabled THEN "resp_loss"
                             ELSE "resp_break"]
  /\ UNCHANGED <<flows, waiting, tables, events, suspendedIn, lifted, seenHost, cmdVars>>

\* maybe_inject_packet_loss; lost is the outcome of
\* random.random() <= loss_rate, which a rate of 1 makes certain
ResponseLoss(f) ==
  /\ pc[f] = "resp_loss"
  /\ ReadProfile(f, "response")
  /\ \E lost \in BOOLEAN :
       /\ lost => traffic_profile_enabled /\ ACTIVE_TRAFFIC_PROFILE.packet_loss > 0
       /\ ~lost => ~traffic_profile_enabled \/ ACTIVE_TRAFFIC_PROFILE.packet_loss < 100
       /\ flows' = IF lost THEN [flows EXCEPT ![f].response = PacketLossResponse]
                   ELSE flows
       /\ pc' = [pc EXCEPT ![f] = IF lost THEN "resp_tag_lost" ELSE "resp_tag"]
  /\ UNCHANGED <<waiting, tables, events, suspendedIn, lifted, seenHost, cmdVars>>

\* apply_profile_to_response from tag_response_with_profile on: the tag, then
\* `if packet_loss: return`, then apply_profile_bandwidth on downstream_kbps,
\* which sleeps and changes nothing
ResponseTag(f) ==
  /\ pc[f] \in {"resp_tag", "resp_tag_lost"}
  /\ ReadProfile(f, "response")
  /\ flows' = [flows EXCEPT ![f] = tag_response_with_profile(@)]
  /\ pc' = [pc EXCEPT ![f] = "resp_break"]
  /\ UNCHANGED <<waiting, tables, events, suspendedIn, lifted, seenHost, cmdVars>>

\* response(): waiting_response = should_break(...); flow.intercept()
ResponseBreak(f) ==
  /\ pc[f] = "resp_break"
  /\ LET w == should_break(flows[f], "response") IN
       /\ waiting' = [waiting EXCEPT ![f] = w]
       /\ flows' = IF w THEN [flows EXCEPT ![f] = Intercept(@)] ELSE flows
       /\ suspendedIn' = IF w THEN [suspendedIn EXCEPT ![f] = "response"]
                           ELSE suspendedIn
  /\ pc' = [pc EXCEPT ![f] = "resp_event"]
  /\ UNCHANGED <<tables, events, lifted, seenHost, profileReads, cmdVars>>

\* the event written only `if not waiting_response`
ResponseEventUnlessWaiting(f) ==
  /\ pc[f] = "resp_event"
  /\ events' = IF waiting[f] THEN events
                ELSE Emit(f, FlowEvent(f, flows[f], "response", NoBreakpoint))
  /\ waiting' = [waiting EXCEPT ![f] = FALSE]
  /\ pc' = [pc EXCEPT ![f] = "response_done"]
  /\ UNCHANGED <<flows, tables, suspendedIn, lifted, seenHost, profileReads, cmdVars>>

\* response(): send_flow_event(flow, "response", bp_meta)
ResponseEvent(f) ==
  /\ pc[f] = "resp_event"
  /\ LET bp_meta == IF waiting[f]
                      THEN breakpoint_snapshot(flows[f], "response", "waiting")
                      ELSE NoBreakpoint
     IN events' = Emit(f, FlowEvent(f, flows[f], "response", bp_meta))
  /\ waiting' = [waiting EXCEPT ![f] = FALSE]
  /\ pc' = [pc EXCEPT ![f] = "response_done"]
  /\ UNCHANGED <<flows, tables, suspendedIn, lifted, seenHost, profileReads, cmdVars>>

\* The engine sends the response to the client once the response hook has
\* returned and the flow is not intercepted.
EngineDeliver(f) ==
  /\ pc[f] = "response_done"
  /\ ~flows[f].intercepted
  /\ pc' = [pc EXCEPT ![f] = "done"]
  /\ UNCHANGED <<flows, waiting, tables, events, suspendedIn, lifted, seenHost, profileReads, cmdVars>>

Hooks ==
  \E f \in Ids :
    \/ ClientRequest(f)
    \/ RequestEnter(f)
    \/ RequestBreak(f)
    \/ RequestShape(f)
    \/ RequestBandwidth(f)
    \/ RequestMapLocal(f)
    \/ RequestEvent(f)
    \/ EngineForward(f)
    \/ ResponseEnter(f)
    \/ ResponseShape(f)
    \/ ResponseLoss(f)
    \/ ResponseTag(f)
    \/ ResponseBreak(f)
    \/ ResponseEvent(f)
    \/ EngineDeliver(f)

\* ------------------------------------------------------ command arguments
\* The ids a command line can name: flow ids are random uuid4 strings, which
\* the controller learns from the events alone; any other text names no flow.
KnownIds == {f \in Ids : events[f] # <<>>}
CmdIds == KnownIds \cup {UnknownId}
CmdKeys == {"h.test/a", "h.test/b", ""}
DataUrlBody == "data:image/png;base64,QUJD"

ProfilePayloads ==
  { [dict |-> FALSE],
    [dict |-> TRUE, id |-> "p.slow", latency_ms |-> 100, jitter_ms |-> -5,
     downstream_kbps |-> 8, upstream_kbps |-> 0, packet_loss |-> 50],
    [dict |-> TRUE, id |-> "p.lossy", upstream_kbps |-> -1, packet_loss |-> 150] }

\* body, status, headers of mock_response and mock_rule
MockArgs ==
  { [body |-> "", status |-> 0, headers |-> EmptyHeaders],
    [body |-> "m", status |-> 404, headers |-> [n \in {"content-type"} |-> "text/x"]] }

\* body, headers of mock_request
MockRequestArgs ==
  { [body |-> "", headers |-> EmptyHeaders],
    [body |-> "b", headers |-> [n \in {"X-Mock"} |-> "1"]] }

\* the request / response objects a breakpoint_continue may carry
RequestEdits ==
  { NoPayload,
    [given |-> TRUE, method |-> "put", url |-> NoUrl, body |-> "e",
     headers |-> EmptyHeaders],
    [given |-> TRUE, method |-> "", url |-> UrlB, body |-> "",
     headers |-> [n \in {"X-Edit"} |-> "1"]],
    [given |-> TRUE, method |-> "", url |-> UrlLocal, body |-> "",
     headers |-> EmptyHeaders] }
ResponseEdits ==
  { NoPayload,
    [given |-> TRUE, status |-> 0, body |-> "r", headers |-> EmptyHeaders],
    [given |-> TRUE, status |-> 500, body |-> DataUrlBody, headers |-> EmptyHeaders] }

\* method, url, headers, body of retry_flow
RetryArgs ==
  { [id |-> 0, method |-> "", url |-> NoUrl, headers |-> EmptyHeaders, body |-> ""],
    [id |-> 0, method |-> "put", url |-> UrlB, headers |-> [n \in {"X-Retry"} |-> "1"],
     body |-> "x"] }

Max(a, b) == IF a >= b THEN a ELSE b
Min(a, b) == IF a <= b THEN a ELSE b

\* ------------------------------------------------------- command handlers
\* stdin_reader has read one more line
ReadLine(cmd) ==
  /\ nCmds < run.cmds
  /\ nCmds' = nCmds + 1
  /\ UNCHANGED run
  /\ lastCmd' = cmd

\* a line json.loads rejects: the exception is caught and logged
CmdMalformed ==
  /\ ReadLine(CmdRecord("malformed", FALSE, FALSE))
  /\ UNCHANGED <<flows, pc, waiting, tables, events, suspendedIn, lifted, seenHost, profileReads>>

\* profile_payload.get(name, 0) of a number
NumberIn(payload, name) == IF name \in DOMAIN payload THEN payload[name] ELSE 0

\* a profile stored as it is sent
update_traffic_profile_as_sent(payload) ==
  IF payload.dict
    THEN [id |-> IF "id" \in DOMAIN payload THEN payload.id
                 ELSE TRAFFIC_PROFILE_DEFAULT.id,
          latency_ms |-> NumberIn(payload, "latency_ms"),
          jitter_ms |-> NumberIn(payload, "jitter_ms"),
          downstream_kbps |-> NumberIn(payload, "downstream_kbps"),
          upstream_kbps |-> NumberIn(payload, "upstream_kbps"),
          packet_loss |-> NumberIn(payload, "packet_loss")]
    ELSE TRAFFIC_PROFILE_DEFAULT

\* update_traffic_profile; packet_loss is kept in percent
update_traffic_profile(payload) ==
  IF payload.dict
    THEN [id |-> IF "id" \in DOMAIN payload THEN payload.id
                 ELSE TRAFFIC_PROFILE_DEFAULT.id,
          latency_ms |-> Max(NumberIn(payload, "latency_ms"), 0),
          jitter_ms |-> Max(NumberIn(payload, "jitter_ms"), 0),
          downstream_kbps |-> Max(NumberIn(payload, "downstream_kbps"), 0),
          upstream_kbps |-> Max(NumberIn(payload, "upstream_kbps"), 0),
          packet_loss |-> Max(Min(NumberIn(payload, "packet_loss"), 100), 0)]
    ELSE TRAFFIC_PROFILE_DEFAULT

CmdTrafficProfile ==
  \E payload \in ProfilePayloads :
    /\ ReadLine(CmdRecordWith("traffic_profile", FALSE, FALSE, [profile |-> payload]))
    /\ ACTIVE_TRAFFIC_PROFILE' = update_traffic_profile(payload)
    /\ UNCHANGED <<flows, pc, waiting, FLOW_BY_ID, FLOW_BY_KEY, MAP_LOCAL_RULES,
                   BREAKPOINT_RULES, events, suspendedIn, lifted, seenHost, profileReads>>

\* flow = FLOW_BY_ID.get(flow_id); `if not flow`
FlowFound(id) == id \in DOMAIN FLOW_BY_ID

\* the rule mock_response stores for a flow
MockResponseRule(flow, a) ==
  [body |-> a.body,
   headers |-> IF a.headers # EmptyHeaders THEN a.headers
               ELSE IF flow.response # NoResponse THEN flow.response.headers
               ELSE EmptyHeaders,
   status |-> IF a.status # 0 THEN a.status
              ELSE IF flow.response # NoResponse THEN flow.response.status
              ELSE 200]

CmdMockResponse ==
  \E id \in CmdIds, a \in MockArgs :
    /\ ReadLine(CmdRecord("mock_response", FlowFound(id), FALSE))
    /\ IF ~FlowFound(id)
         THEN UNCHANGED <<flows, MAP_LOCAL_RULES>>
         ELSE LET f == FLOW_BY_ID[id]
                  new_rule == MockResponseRule(flows[f], a)
              IN /\ MAP_LOCAL_RULES' = Put(MAP_LOCAL_RULES, flow_key(flows[f]), new_rule)
                 /\ flows' = [flows EXCEPT ![f].response = MapLocalResponse(new_rule)]
    /\ UNCHANGED <<pc, waiting, FLOW_BY_ID, FLOW_BY_KEY, BREAKPOINT_RULES,
                   ACTIVE_TRAFFIC_PROFILE, events, suspendedIn, lifted, seenHost, profileReads>>

CmdMockRule ==
  \E key \in CmdKeys, a \in MockArgs, enabled \in BOOLEAN :
    /\ ReadLine(CmdRecord("mock_rule", FALSE, FALSE))
    /\ IF key = ""
         THEN UNCHANGED <<flows, MAP_LOCAL_RULES>>
         ELSE IF ~enabled
           THEN /\ MAP_LOCAL_RULES' = Pop(MAP_LOCAL_RULES, key)
                /\ UNCHANGED flows
           ELSE LET rule == [body |-> a.body, headers |-> a.headers,
                             status |-> IF a.status = 0 THEN 200 ELSE a.status]
                IN /\ MAP_LOCAL_RULES' = Put(MAP_LOCAL_RULES, key, rule)
                   /\ flows' = IF key \in DOMAIN FLOW_BY_KEY
                                 THEN [flows EXCEPT ![FLOW_BY_KEY[key]].response =
                                         MapLocalResponse(rule)]
                                 ELSE flows
    /\ UNCHANGED <<pc, waiting, FLOW_BY_ID, FLOW_BY_KEY, BREAKPOINT_RULES,
                   ACTIVE_TRAFFIC_PROFILE, events, suspendedIn, lifted, seenHost, profileReads>>

CmdDeleteRule ==
  \E key \in CmdKeys :
    /\ ReadLine(CmdRecord("delete_rule", FALSE, FALSE))
    /\ IF key \in DOMAIN MAP_LOCAL_RULES
         THEN /\ MAP_LOCAL_RULES' = Pop(MAP_LOCAL_RULES, key)
              /\ flows' = IF key \in DOMAIN FLOW_BY_KEY
                            THEN [flows EXCEPT ![FLOW_BY_KEY[key]].response = NoResponse]
                            ELSE flows
         ELSE UNCHANGED <<flows, MAP_LOCAL_RULES>>
    /\ UNCHANGED <<pc, waiting, FLOW_BY_ID, FLOW_BY_KEY, BREAKPOINT_RULES,
                   ACTIVE_TRAFFIC_PROFILE, events, suspendedIn, lifted, seenHost, profileReads>>

\* a lookup that falls back on any registered flow when the id names none
CmdMockRequestAnyFlow ==
  \E id \in CmdIds, a \in MockRequestArgs :
    /\ ReadLine(CmdRecord("mock_request", FlowFound(id), FALSE))
    /\ \E f \in (IF FlowFound(id) THEN {FLOW_BY_ID[id]} ELSE DOMAIN FLOW_BY_ID) :
         flows' = [flows EXCEPT
                     ![f].body = a.body,
                     ![f].headers = IF a.headers # EmptyHeaders THEN a.headers ELSE @]
    /\ UNCHANGED <<pc, waiting, tables, events, suspendedIn, lifted, seenHost, profileReads>>

CmdMockRequest ==
  \E id \in CmdIds, a \in MockRequestArgs :
    /\ ReadLine(CmdRecord("mock_request", FlowFound(id), FALSE))
    /\ IF ~FlowFound(id)
         THEN UNCHANGED flows
         ELSE flows' = [flows EXCEPT
                ![FLOW_BY_ID[id]].body = a.body,
                ![FLOW_BY_ID[id]].headers = IF a.headers # EmptyHeaders THEN a.headers
                                            ELSE @]
    /\ UNCHANGED <<pc, waiting, tables, events, suspendedIn, lifted, seenHost, profileReads>>

CmdBreakpointRule ==
  \E key \in CmdKeys, request_flag \in BOOLEAN, response_flag \in BOOLEAN :
    /\ ReadLine(CmdRecord("breakpoint_rule", FALSE, FALSE))
    /\ BREAKPOINT_RULES' =
         IF key = "" THEN BREAKPOINT_RULES
         ELSE IF request_flag \/ response_flag
           THEN Put(BREAKPOINT_RULES, key,
                    [request |-> request_flag, response |-> response_flag])
           ELSE Pop(BREAKPOINT_RULES, key)
    /\ UNCHANGED <<flows, pc, waiting, FLOW_BY_ID, FLOW_BY_KEY, MAP_LOCAL_RULES,
                   ACTIVE_TRAFFIC_PROFILE, events, suspendedIn, lifted, seenHost, profileReads>>

\* try_decode_data_url on the bodies in use
try_decode_data_url(payload) ==
  IF payload = DataUrlBody
    THEN [ok |-> TRUE, mime |-> "image/png", data |-> "ABC"]
    ELSE [ok |-> FALSE, mime |-> "", data |-> ""]

apply_request_updates(flow, payload) ==
  IF ~payload.given THEN flow
  ELSE [flow EXCEPT
          !.method = IF payload.method # "" THEN Upper(payload.method) ELSE @,
          !.url = IF payload.url # NoUrl THEN payload.url ELSE @,
          !.body = payload.body,
          !.headers = payload.headers]

apply_response_updates(flow, payload) ==
  IF ~payload.given THEN flow
  ELSE LET default_status == IF flow.response # NoResponse
                               THEN flow.response.status ELSE 200
           status == IF payload.status # 0 THEN payload.status ELSE default_status
           decoded == try_decode_data_url(payload.body)
           hasType == \E h \in DOMAIN payload.headers : Lower(h) = "content-type"
           headers == IF decoded.ok /\ decoded.mime # "" /\ ~hasType
                        THEN Put(payload.headers, "Content-Type", decoded.mime)
                        ELSE payload.headers
       IN [flow EXCEPT !.response =
             [status |-> status,
              body |-> IF decoded.ok THEN decoded.data ELSE payload.body,
              headers |-> headers]]

\* flow.resume() called on flow f, whose record becomes `edited` first
ResumeFlow(f, edited) ==
  /\ flows' = [flows EXCEPT ![f] = Resume(edited)]
  /\ suspendedIn' = [suspendedIn EXCEPT ![f] = ""]
  /\ lifted' = IF flows[f].intercepted
                 THEN [lifted EXCEPT ![f][suspendedIn[f]] = @ + 1]
                 ELSE lifted

\* a release that leaves the entry under the old key where it is
ContinueRequestKeepOldKey(f, payload) ==
  LET edited == apply_request_updates(flows[f], payload)
  IN /\ FLOW_BY_ID' = Put(FLOW_BY_ID, f, f)
     /\ FLOW_BY_KEY' = Put(FLOW_BY_KEY, flow_key(edited), f)
     /\ events' = Emit(f, FlowEvent(f, edited, "request",
                                    breakpoint_snapshot(edited, "request", "released")))
     /\ ResumeFlow(f, edited)

\* a release that moves the id entry away with the old key
ContinueRequestDropId(f, payload) ==
  LET old_key == flow_key(flows[f])
      edited == apply_request_updates(flows[f], payload)
      new_key == flow_key(edited)
  IN /\ FLOW_BY_ID' = IF old_key # new_key THEN Pop(FLOW_BY_ID, f) ELSE FLOW_BY_ID
     /\ FLOW_BY_KEY' = Put(IF old_key # new_key THEN Pop(FLOW_BY_KEY, old_key)
                                               ELSE FLOW_BY_KEY, new_key, f)
     /\ events' = Emit(f, FlowEvent(f, edited, "request",
                                    breakpoint_snapshot(edited, "request", "released")))
     /\ ResumeFlow(f, edited)

ContinueRequest(f, payload) ==
  LET old_key == flow_key(flows[f])
      edited == apply_request_updates(flows[f], payload)
      new_key == flow_key(edited)
  IN /\ FLOW_BY_ID' = Put(FLOW_BY_ID, f, f)
     /\ FLOW_BY_KEY' = Put(IF old_key # new_key THEN Pop(FLOW_BY_KEY, old_key)
                                               ELSE FLOW_BY_KEY, new_key, f)
     /\ events' = Emit(f, FlowEvent(f, edited, "request",
                                    breakpoint_snapshot(edited, "request", "released")))
     /\ ResumeFlow(f, edited)

ContinueResponse(f, payload) ==
  LET edited == apply_response_updates(flows[f], payload)
  IN /\ FLOW_BY_ID' = Put(FLOW_BY_ID, f, f)
     /\ FLOW_BY_KEY' = Put(FLOW_BY_KEY, flow_key(edited), f)
     /\ events' = Emit(f, FlowEvent(f, edited, "response",
                                    breakpoint_snapshot(edited, "response", "released")))
     /\ ResumeFlow(f, edited)

\* an unknown phase that is logged and nothing more
ContinueUnknownPhaseLogged(f) ==
  UNCHANGED <<flows, suspendedIn, lifted, FLOW_BY_ID, FLOW_BY_KEY, events>>

ContinueUnknownPhase(f) ==
  /\ ResumeFlow(f, flows[f])
  /\ UNCHANGED <<FLOW_BY_ID, FLOW_BY_KEY, events>>

EditsFor(phase) ==
  IF phase = "request" THEN RequestEdits
  ELSE IF phase = "response" THEN ResponseEdits
  ELSE {NoPayload}

CmdBreakpointContinue ==
  \E id \in CmdIds, phase \in {"request", "response", "bogus"} :
    \E payload \in EditsFor(phase) :
      /\ ReadLine(CmdRecordWith("breakpoint_continue", FlowFound(id), FALSE,
                                IF FlowFound(id)
                                  THEN [id |-> id, phase |-> phase, payload |-> payload]
                                  ELSE NoArgs))
      /\ IF ~FlowFound(id)
           THEN UNCHANGED <<flows, FLOW_BY_ID, FLOW_BY_KEY, events, suspendedIn, lifted, seenHost, profileReads>>
           ELSE IF phase = "request" THEN ContinueRequest(FLOW_BY_ID[id], payload)
           ELSE IF phase = "response" THEN ContinueResponse(FLOW_BY_ID[id], payload)
           ELSE ContinueUnknownPhase(FLOW_BY_ID[id])
      /\ UNCHANGED <<pc, waiting, MAP_LOCAL_RULES, BREAKPOINT_RULES,
                     ACTIVE_TRAFFIC_PROFILE, seenHost, profileReads>>

\* str(uuid.uuid4()): an id no flow has had
FreshIds == {c \in Ids \ ClientIds : pc[c] = "absent" /\
                \A d \in Ids \ ClientIds : d < c => pc[d] # "absent"}

\* a copy that keeps the response of the flow it copies
RetryCloneKeepResponse(flow, a) ==
  LET method == Upper(IF a.method # "" THEN a.method
                      ELSE IF flow.method # "" THEN flow.method ELSE "GET")
      url == IF a.url # NoUrl THEN a.url ELSE flow.url
  IN [flow EXCEPT !.method = method,
                  !.url = IF url # NoUrl THEN url ELSE @,
                  !.body = a.body,
                  !.headers = IF a.headers # EmptyHeaders THEN a.headers ELSE @,
                  !.intercepted = FALSE]

\* flow.copy() with the new id's fields set as retry_flow sets them
RetryClone(flow, a) ==
  LET method == Upper(IF a.method # "" THEN a.method
                      ELSE IF flow.method # "" THEN flow.method ELSE "GET")
      url == IF a.url # NoUrl THEN a.url ELSE flow.url
  IN [flow EXCEPT !.response = NoResponse,
                  !.method = method,
                  !.url = IF url # NoUrl THEN url ELSE @,
                  !.body = a.body,
                  !.headers = IF a.headers # EmptyHeaders THEN a.headers ELSE @,
                  !.intercepted = FALSE]

\* retry_flow; refused: ctx.master.commands.call("replay.client", ...) raises
CmdRetryFlow ==
  \E id \in CmdIds, a \in RetryArgs, refused \in BOOLEAN :
    /\ IF ~FlowFound(id)
         THEN /\ ~refused
              /\ ReadLine(CmdRecord("retry_flow", FALSE, FALSE))
              /\ UNCHANGED <<flows, pc, FLOW_BY_ID, FLOW_BY_KEY>>
         ELSE \E c \in FreshIds :
                LET cloned_flow == RetryClone(flows[FLOW_BY_ID[id]], a) IN
                  /\ ReadLine(CmdRecordWith("retry_flow", TRUE, refused,
                                            [a EXCEPT !.id = id]))
                  /\ flows' = [flows EXCEPT ![c] = cloned_flow]
                  /\ FLOW_BY_ID' = Put(FLOW_BY_ID, c, c)
                  /\ FLOW_BY_KEY' = Put(FLOW_BY_KEY, flow_key(cloned_flow), c)
                  /\ pc' = [pc EXCEPT ![c] = IF refused THEN "refused" ELSE "request"]
    /\ UNCHANGED <<waiting, MAP_LOCAL_RULES, BREAKPOINT_RULES, ACTIVE_TRAFFIC_PROFILE,
                   events, ghosts>>

Commands ==
  \/ CmdMalformed
  \/ CmdTrafficProfile
  \/ CmdMockResponse
  \/ CmdMockRule
  \/ CmdDeleteRule
  \/ CmdMockRequest
  \/ CmdBreakpointRule
  \/ CmdBreakpointContinue
  \/ CmdRetryFlow

Next == Hooks \/ Commands

Spec == Init /\ [][Next]_vars

\* One exchange fewer and one command line more
SpecDeep == InitWith(NumFlows - 1, MaxCmds + 1) /\ [][Next]_vars

\* The engine's thread runs a hook that can take a step, the engine goes on with
\* a flow it may go on with, and stdin_reader's thread handles the lines it is
\* sent.
HookStep(f) ==
  \/ RequestEnter(f) \/ RequestBreak(f) \/ RequestShape(f) \/ RequestBandwidth(f)
  \/ RequestMapLocal(f) \/ RequestEvent(f) \/ ResponseEnter(f) \/ ResponseShape(f)
  \/ ResponseLoss(f) \/ ResponseTag(f) \/ ResponseBreak(f) \/ ResponseEvent(f)
EngineStep(f) == EngineForward(f) \/ EngineDeliver(f)
\* breakpoint rules and shaping alone, under these fairness conditions
NextBreakpoints == Hooks \/ CmdMalformed \/ CmdBreakpointRule \/ CmdTrafficProfile
FairnessBreakpoints ==
  /\ \A f \in Ids : WF_vars(HookStep(f)) /\ WF_vars(EngineStep(f))
  /\ WF_vars(CmdMalformed \/ CmdBreakpointRule \/ CmdTrafficProfile)
SpecFair ==
  InitWith(NumFlows, MaxCmds) /\ [][NextBreakpoints]_vars /\ FairnessBreakpoints

\* ======================================================== the properties
Phases == {"request", "response"}
EventsOf(f, ev) == {i \in DOMAIN events[f] : events[f][i].event = ev}
TaggedOf(f, phase, state) ==
  {i \in DOMAIN events[f] : /\ events[f][i].breakpoint.phase = phase
                            /\ events[f][i].breakpoint.state = state}
\* the events the hooks write: those a breakpoint_continue writes are tagged released
HookEventsOf(f, ev) ==
  {i \in EventsOf(f, ev) : events[f][i].breakpoint.state # "released"}
\* the flag BREAKPOINT_RULES holds for a flow's key and a phase
RuleFlag(flow, phase) ==
  /\ flow_key(flow) \in DOMAIN BREAKPOINT_RULES
  /\ BREAKPOINT_RULES[flow_key(flow)][phase]
LastEvent(f) == events[f][Len(events[f])]

\* C1: an exchange the hook suspended in a phase gets one released event for that
\* phase, whatever breakpoint_continue lines follow; a repeated
\* breakpoint_continue for the same id and phase emits no further one.
C1_ReleasedOnce ==
  \A f \in Ids, phase \in Phases :
    TaggedOf(f, phase, "waiting") # {} =>
      Cardinality(TaggedOf(f, phase, "released")) <= 1

\* C2: when the request hook finds its flow's key flagged for the request phase
\* it intercepts the flow, keeps it intercepted for the rest of the hook and
\* writes {phase=request, state=waiting, key} as the flow's first event, so
\* before any response event; the response hook does the same for its phase.
C2_BreakStep(f) ==
  /\ (pc[f] = "req_break" /\ pc'[f] = "req_shape" /\ RuleFlag(flows[f], "request"))
       => flows'[f].intercepted /\ waiting'[f]
  /\ (pc[f] = "resp_break" /\ pc'[f] = "resp_event" /\ RuleFlag(flows[f], "response"))
       => flows'[f].intercepted /\ waiting'[f]
C2_EventStep(f) ==
  /\ (pc[f] = "req_event" /\ pc'[f] = "request_done" /\ waiting[f])
       => /\ Len(events'[f]) = 1
          /\ events'[f][1].event = "request"
          /\ events'[f][1].id = f
          /\ events'[f][1].breakpoint =
               [phase |-> "request", state |-> "waiting", key |-> flow_key(flows[f])]
          /\ flows'[f].intercepted
  /\ (pc[f] = "resp_event" /\ pc'[f] = "response_done" /\ waiting[f])
       => /\ Len(events'[f]) = Len(events[f]) + 1
          /\ events'[f][Len(events'[f])].event = "response"
          /\ events'[f][Len(events'[f])].id = f
          /\ events'[f][Len(events'[f])].breakpoint =
               [phase |-> "response", state |-> "waiting", key |-> flow_key(flows[f])]
C2_Held(f) ==
  (pc[f] \in {"req_shape", "req_bandwidth", "req_map", "req_event"} /\ waiting[f])
    => flows[f].intercepted /\ events[f] = <<>>
C2_WaitingBeforeResponse ==
  /\ [][\A f \in Ids : C2_BreakStep(f) /\ C2_EventStep(f)]_vars
  /\ [](\A f \in Ids : C2_Held(f))
C2_Witness ==
  \E f \in Ids :
    /\ TaggedOf(f, "request", "waiting") = {1}
    /\ TaggedOf(f, "response", "waiting") # {}

\* C3 as stated: once both hooks of an exchange whose host is not loopback have
\* run, one event=request and one event=response carry its id, in this order.
BothHooksRan(f) ==
  /\ pc[f] \in {"response_done", "done"}
  /\ seenHost[f].request # "" /\ ~is_loopback_host(seenHost[f].request)
  /\ seenHost[f].response # "" /\ ~is_loopback_host(seenHost[f].response)
C4_RequestBeforeResponse ==
  \A f \in Ids :
    \A i \in EventsOf(f, "response"), j \in EventsOf(f, "request") : j < i

\* C5: while an exchange stays intercepted, every other exchange's request and
\* response hook that is due runs to its end, and stdin_reader handles the
\* next line.
Suspended(f) == flows[f].intercepted
OtherSuspended(g) == \E f \in Ids \ {g} : Suspended(f)
C5_OthersProgress ==
  /\ \A g \in Ids :
       /\ (OtherSuspended(g) /\ pc[g] = "request")
            ~> (pc[g] = "request_done" \/ ~OtherSuspended(g))
       /\ (OtherSuspended(g) /\ pc[g] = "response")
            ~> (pc[g] = "response_done" \/ ~OtherSuspended(g))
  /\ \A n \in 0..MaxCmds :
       ((\E f \in Ids : Suspended(f)) /\ nCmds = n /\ n < run.cmds)
         ~> (nCmds > n \/ ~(\E f \in Ids : Suspended(f)))
C5_Witness ==
  \E f \in Ids : \E g \in Ids \ {f} :
    /\ Suspended(f)
    /\ pc[g] = "done"
    /\ events[g] # <<>>
    /\ lastCmd.type = "malformed"

\* C6: a request that reaches the Map Local lookup while MAP_LOCAL_RULES holds
\* a rule for its key leaves it with the rule's status, the rule's body and the
\* X-Map-Local header; as long as a rule for the key is there the flow keeps a
\* response so marked up to its request event, which carries it; the lookup and
\* the event leave MAP_LOCAL_RULES as it was.
Marked(response) ==
  /\ "X-Map-Local" \in DOMAIN response.headers
  /\ response.headers["X-Map-Local"] = "true"
FromRule(response, rule) ==
  /\ response.status = rule.status
  /\ response.body = rule.body
  /\ Marked(response)
C6_LookupStep(f) ==
  LET K == flow_key(flows[f]) IN
    (pc[f] = "req_map" /\ pc'[f] # "req_map") =>
      /\ pc'[f] = "req_event"
      /\ MAP_LOCAL_RULES' = MAP_LOCAL_RULES
      /\ K \in DOMAIN MAP_LOCAL_RULES => FromRule(flows'[f].response, MAP_LOCAL_RULES[K])
C6_KeptStep(f) ==
  LET K == flow_key(flows[f]) IN
    (/\ pc[f] = "req_event" /\ pc'[f] = "req_event"
     /\ K \in DOMAIN MAP_LOCAL_RULES /\ K \in DOMAIN MAP_LOCAL_RULES'
     /\ Marked(flows[f].response)) =>
      \/ flows'[f].response = flows[f].response
      \/ FromRule(flows'[f].response, MAP_LOCAL_RULES'[K])
C6_EventStep(f) ==
  (pc'[f] = "req_event" => pc[f] \in {"req_map", "req_event"})
  /\ ((pc[f] = "req_event" /\ pc'[f] # "req_event") =>
        /\ Len(events'[f]) = Len(events[f]) + 1
        /\ events'[f][Len(events'[f])].event = "request"
        /\ events'[f][Len(events'[f])].response = flows[f].response
        /\ MAP_LOCAL_RULES' = MAP_LOCAL_RULES)
  /\ ((pc[f] = "request" /\ pc'[f] # "request") =>
        \/ pc'[f] = "req_break"
        \/ pc'[f] = "request_done" /\ is_loopback_host(flows[f].url.host))
C6_RuleAppliedNotConsumed ==
  [][\A f \in Ids : C6_LookupStep(f) /\ C6_KeptStep(f) /\ C6_EventStep(f)]_vars
C6_Witness ==
  \E f \in Ids : \E g \in Ids \ {f} :
    /\ flow_key(flows[f]) = flow_key(flows[g])
    /\ flow_key(flows[f]) \in DOMAIN MAP_LOCAL_RULES
    /\ events[f] # <<>> /\ events[g] # <<>>
    /\ FromRule(events[f][1].response, MAP_LOCAL_RULES[flow_key(flows[f])])
    /\ FromRule(events[g][1].response, MAP_LOCAL_RULES[flow_key(flows[g])])

\* C7: a step that takes the rule for key K out of MAP_LOCAL_RULES leaves the
\* flow FLOW_BY_KEY holds under K without a response, and K without a rule.
C7_RemovalClearsResponse ==
  [][\A K \in DOMAIN MAP_LOCAL_RULES :
       K \notin DOMAIN MAP_LOCAL_RULES' =>
         (K \in DOMAIN FLOW_BY_KEY => flows'[FLOW_BY_KEY[K]].response = NoResponse)]_vars

\* C8: retry_flow naming a registered id adds one entry to FLOW_BY_ID, under an
\* id not in it; the new flow has the line's url or the original's, the line's
\* body, no response, and a method as the claim in hand says; the original is as
\* it was.
RetryStep == nCmds' = nCmds + 1 /\ lastCmd'.type = "retry_flow" /\ lastCmd'.found
C8_Retried(method_of(_, _)) ==
  RetryStep =>
    LET a == lastCmd'.args
        A == FLOW_BY_ID[a.id]
    IN /\ \E c \in Ids \ DOMAIN FLOW_BY_ID :
            /\ DOMAIN FLOW_BY_ID' = DOMAIN FLOW_BY_ID \cup {c}
            /\ \A i \in DOMAIN FLOW_BY_ID : FLOW_BY_ID'[i] = FLOW_BY_ID[i]
            /\ LET clone == flows'[FLOW_BY_ID'[c]] IN
                 /\ clone.method = method_of(a, flows[A])
                 /\ clone.url = IF a.url # NoUrl THEN a.url ELSE flows[A].url
                 /\ clone.body = a.body
                 /\ clone.response = NoResponse
       /\ flows'[A] = flows[A]
\* the line's method upper-cased, or the original's as it is
MethodAsClaimed(a, original) ==
  IF a.method # "" THEN Upper(a.method) ELSE original.method
\* the line's method or the original's, upper-cased in either case
MethodUpperCased(a, original) ==
  Upper(IF a.method # "" THEN a.method ELSE original.method)
C8_CloneAsClaimed == [][C8_Retried(MethodAsClaimed)]_vars
C8_CloneUpperCased == [][C8_Retried(MethodUpperCased)]_vars
C8_Witness ==
  /\ lastCmd.type = "retry_flow" /\ lastCmd.found /\ lastCmd.args.method = ""
  /\ flows[FLOW_BY_ID[lastCmd.args.id]].method = "post"
  /\ flows[FLOW_BY_ID[lastCmd.args.id]].response # NoResponse
  /\ \E c \in DOMAIN FLOW_BY_ID \ ClientIds :
       flows[c].method = "POST" /\ flows[c].response = NoResponse

\* C9: a retry_flow whose replay the engine refuses leaves every flow but the
\* clone as it was and found by the ids and the keys that found it before, and
\* the line counts as handled.
C9_RefusedRetryContained ==
  [][(RetryStep /\ lastCmd'.refused) =>
       /\ \A i \in DOMAIN FLOW_BY_ID :
            i \in DOMAIN FLOW_BY_ID' /\ FLOW_BY_ID'[i] = FLOW_BY_ID[i]
       /\ \A K \in DOMAIN FLOW_BY_KEY :
            K \in DOMAIN FLOW_BY_KEY' /\ FLOW_BY_KEY'[K] = FLOW_BY_KEY[K]
       /\ \A g \in Ids : pc[g] # "absent" => flows'[g] = flows[g] /\ pc'[g] = pc[g]
       /\ events' = events]_vars

\* C10: a mock_response, mock_request, breakpoint_continue or retry_flow line
\* whose id FLOW_BY_ID does not hold changes nothing but the count of lines
\* handled: no table, no flow, no event, no resumption.
ById == {"mock_response", "mock_request", "breakpoint_continue", "retry_flow"}
C10_UnknownIdNoOp ==
  [][(nCmds' = nCmds + 1 /\ lastCmd'.type \in ById /\ ~lastCmd'.found) =>
       /\ UNCHANGED <<FLOW_BY_ID, FLOW_BY_KEY, MAP_LOCAL_RULES, BREAKPOINT_RULES,
                      ACTIVE_TRAFFIC_PROFILE>>
       /\ UNCHANGED <<flows, pc, waiting, events, ghosts>>]_vars
C10_Witness ==
  /\ lastCmd.type \in ById /\ ~lastCmd.found
  /\ nCmds = MaxCmds
  /\ \E f \in DOMAIN FLOW_BY_ID : flows[f].intercepted

\* C11: a breakpoint_continue that names a registered flow and a phase that is
\* neither request nor response leaves the flow resumed with its request and
\* response as they were, every other flow, FLOW_BY_ID, FLOW_BY_KEY and the
\* rule tables unchanged, and writes no event.
ContinueStep ==
  nCmds' = nCmds + 1 /\ lastCmd'.type = "breakpoint_continue" /\ lastCmd'.found
C11_UnknownPhaseFailOpen ==
  [][(ContinueStep /\ lastCmd'.args.phase \notin Phases) =>
       LET f == FLOW_BY_ID[lastCmd'.args.id] IN
         /\ ~flows'[f].intercepted
         /\ flows' = [flows EXCEPT ![f].intercepted = FALSE]
         /\ UNCHANGED <<FLOW_BY_ID, FLOW_BY_KEY, MAP_LOCAL_RULES, BREAKPOINT_RULES,
                        ACTIVE_TRAFFIC_PROFILE, events, pc>>]_vars
C11_Witness ==
  /\ lastCmd.type = "breakpoint_continue" /\ lastCmd.found
  /\ lastCmd.args.phase \notin Phases
  /\ LET f == FLOW_BY_ID[lastCmd.args.id] IN
       /\ ~flows[f].intercepted
       /\ TaggedOf(f, "request", "waiting") # {}
       /\ TaggedOf(f, "request", "released") = {}
       /\ lifted[f]["request"] = 1

\* C12: the flow FLOW_BY_KEY holds under K has key K, and the holder of K
\* changes only in a step that registers the new holder (request() or
\* response() entered for it, a release of it or a retry that made it), each of
\* which leaves the registered flow the holder of its key.
Registered(g) ==
  \/ pc[g] = "request" /\ pc'[g] = "req_break"
  \/ pc[g] = "response" /\ pc'[g] = "resp_shape"
  \/ ContinueStep /\ lastCmd'.args.phase \in Phases /\ FLOW_BY_ID[lastCmd'.args.id] = g
  \/ RetryStep /\ g \notin DOMAIN FLOW_BY_ID /\ g \in DOMAIN FLOW_BY_ID'
C12_HolderHasKey ==
  \A K \in DOMAIN FLOW_BY_KEY : flow_key(flows[FLOW_BY_KEY[K]]) = K
C12_HolderStep ==
  /\ \A K \in DOMAIN FLOW_BY_KEY' :
       (K \notin DOMAIN FLOW_BY_KEY \/ FLOW_BY_KEY'[K] # FLOW_BY_KEY[K]) =>
         Registered(FLOW_BY_KEY'[K])
  /\ \A g \in Ids :
       Registered(g) =>
         /\ flow_key(flows'[g]) \in DOMAIN FLOW_BY_KEY'
         /\ FLOW_BY_KEY'[flow_key(flows'[g])] = g
C12_ByKeyMostRecent == [](C12_HolderHasKey) /\ [][C12_HolderStep]_vars
C12_Witness ==
  \E f \in Ids : \E g \in Ids \ {f} :
    /\ f \in DOMAIN FLOW_BY_ID /\ g \in DOMAIN FLOW_BY_ID
    /\ flow_key(flows[f]) = flow_key(flows[g])
    /\ flow_key(flows[g]) \in DOMAIN FLOW_BY_KEY
    /\ FLOW_BY_KEY[flow_key(flows[g])] = g
    /\ pc[f] = "response_done" /\ pc[g] = "request_done"
    /\ lastCmd.type = "breakpoint_continue" /\ lastCmd.found
    /\ lastCmd.args.phase = "request" /\ lastCmd.args.id = g

\* C13: an id FLOW_BY_ID holds stays in it with the same flow in every step,
\* and every intercepted flow is in FLOW_BY_ID under its id.
C13_IdStep ==
  \A i \in DOMAIN FLOW_BY_ID :
    i \in DOMAIN FLOW_BY_ID' /\ FLOW_BY_ID'[i] = FLOW_BY_ID[i]
C13_SuspendedNamed ==
  \A f \in Ids : flows[f].intercepted => f \in DOMAIN FLOW_BY_ID /\ FLOW_BY_ID[f] = f
C13_ByIdPermanent == [](C13_SuspendedNamed) /\ [][C13_IdStep]_vars
C13_Witness ==
  /\ lastCmd.type = "breakpoint_continue" /\ lastCmd.found
  /\ lastCmd.args.phase = "request"
  /\ lastCmd.args.payload = [given |-> TRUE, method |-> "", url |-> UrlB, body |-> "",
                             headers |-> [n \in {"X-Edit"} |-> "1"]]
  /\ LET f == lastCmd.args.id IN
       /\ events[f][1].request.url # UrlB
       /\ flow_key(flows[f]) = "h.test/b"
       /\ FLOW_BY_ID[f] = f
       /\ flows[f].intercepted

\* C14: no event describes a request whose host is loopback, and a hook entered
\* for a flow whose host is loopback returns at once: it writes no event and
\* leaves the flow without response, loss or interception of its making.
C14_NoLoopbackEvent ==
  \A f \in Ids : \A i \in DOMAIN events[f] :
    ~is_loopback_host(events[f][i].request.url.host)
C14_HookStep(f) ==
  (/\ is_loopback_host(flows[f].url.host)
   /\ pc[f] \in {"request", "response"} /\ pc'[f] # pc[f]) =>
     /\ pc'[f] = (IF pc[f] = "request" THEN "request_done" ELSE "response_done")
     /\ flows' = flows
     /\ events' = events
C14_LoopbackIgnored ==
  [](C14_NoLoopbackEvent) /\ [][\A f \in Ids : C14_HookStep(f)]_vars

\* C15: ACTIVE_TRAFFIC_PROFILE always has latency_ms, jitter_ms,
\* downstream_kbps and upstream_kbps >= 0 and packet_loss between 0 and 1 (100
\* percent), and after a traffic_profile line every number the line leaves out
\* is 0.
NumericFields ==
  {"latency_ms", "jitter_ms", "downstream_kbps", "upstream_kbps", "packet_loss"}
C15_InRange ==
  /\ \A n \in NumericFields : ACTIVE_TRAFFIC_PROFILE[n] >= 0
  /\ ACTIVE_TRAFFIC_PROFILE.packet_loss <= 100
C15_ProfileStep ==
  (nCmds' = nCmds + 1 /\ lastCmd'.type = "traffic_profile") =>
    \A n \in NumericFields :
      n \notin DOMAIN lastCmd'.args.profile => ACTIVE_TRAFFIC_PROFILE'[n] = 0
C15_ProfileClamped == [](C15_InRange) /\ [][C15_ProfileStep]_vars
C15_Witness ==
  /\ lastCmd.type = "traffic_profile"
  /\ lastCmd.args.profile.dict
  /\ "latency_ms" \notin DOMAIN lastCmd.args.profile
  /\ lastCmd.args.profile.packet_loss > 100
  /\ lastCmd.args.profile.upstream_kbps < 0
  /\ ACTIVE_TRAFFIC_PROFILE.id = lastCmd.args.profile.id

\* C16: all that the shaping of one phase of one flow reads of
\* ACTIVE_TRAFFIC_PROFILE is one and the same value.
C16_ProfileReadOnce ==
  \A f \in Ids : \A phase \in Phases : Cardinality(profileReads[f][phase]) <= 1

\* C17: with shaping on, maybe_inject_packet_loss either puts the 598 response
\* in place, which then stays as it is, untagged, or leaves the response, which
\* is then tagged with the active profile's id; a packet_loss of 0 never
\* injects a loss.
Tagged(response, id) ==
  [response EXCEPT !.headers = Put(@, "X-FRTraffic-Profile", id)]
C17_Step(f) ==
  /\ (pc[f] = "resp_loss" /\ pc'[f] = "resp_tag_lost") =>
       /\ flows'[f].response = PacketLossResponse
       /\ ACTIVE_TRAFFIC_PROFILE.packet_loss > 0
  /\ (pc[f] = "resp_loss" /\ pc'[f] = "resp_tag") => flows'[f] = flows[f]
  /\ (pc[f] = "resp_tag_lost" /\ pc'[f] # pc[f]) =>
       flows'[f].response = PacketLossResponse
  /\ (pc[f] = "resp_tag" /\ pc'[f] # pc[f]) =>
       flows'[f].response = Tagged(flows[f].response, ACTIVE_TRAFFIC_PROFILE.id)
C17_LossOrTag == [][\A f \in Ids : C17_Step(f)]_vars

\* C18: a breakpoint_continue for the request phase with a request edit leaves
\* the flow with the edit's headers when it gives some and with the headers it
\* had when it gives none, with the edit's body, and with the edit's method
\* upper-cased when it gives one; without an edit the request is as it was.
RequestOf(flow) ==
  [method |-> flow.method, url |-> flow.url, headers |-> flow.headers,
   body |-> flow.body]
C18_RequestEdit ==
  [][(ContinueStep /\ lastCmd'.args.phase = "request") =>
       LET f == FLOW_BY_ID[lastCmd'.args.id]
           edit == lastCmd'.args.payload
       IN IF edit.given
            THEN /\ flows'[f].headers = (IF edit.headers # EmptyHeaders
                                           THEN edit.headers ELSE flows[f].headers)
                 /\ flows'[f].body = edit.body
                 /\ edit.method # "" => flows'[f].method = Upper(edit.method)
            ELSE RequestOf(flows'[f]) = RequestOf(flows[f])]_vars

\* C19: every released event of a flow and phase comes after a waiting event
\* of that flow and phase with no other released event in between, and a
\* breakpoint_continue for a phase the flow is not suspended in leaves the flow
\* and the event log as they were.
C19_ReleasedAfterWaiting ==
  \A f \in Ids : \A phase \in Phases :
    \A i \in TaggedOf(f, phase, "released") :
      \E j \in TaggedOf(f, phase, "waiting") :
        /\ j < i
        /\ \A k \in TaggedOf(f, phase, "released") : ~(j < k /\ k < i)
C19_ContinueStep ==
  (ContinueStep /\ lastCmd'.args.phase \in Phases) =>
    LET f == FLOW_BY_ID[lastCmd'.args.id] IN
      ~(flows[f].intercepted /\ suspendedIn[f] = lastCmd'.args.phase) =>
        flows' = flows /\ events' = events
C19_ReleasedOnlyWhileSuspended ==
  [](C19_ReleasedAfterWaiting) /\ [][C19_ContinueStep]_vars

\* C20: a breakpoint_continue for the request phase whose edit moves flow A
\* away from key K leaves FLOW_BY_KEY[K] as it was when it held another flow.
C20_RekeyKeepsOthers ==
  [][(ContinueStep /\ lastCmd'.args.phase = "request") =>
       LET A == FLOW_BY_ID[lastCmd'.args.id]
           K == flow_key(flows[A])
       IN (/\ flow_key(flows'[A]) # K
           /\ K \in DOMAIN FLOW_BY_KEY
           /\ FLOW_BY_KEY[K] # A) =>
            K \in DOMAIN FLOW_BY_KEY' /\ FLOW_BY_KEY'[K] = FLOW_BY_KEY[K]]_vars
====
